---- MODULE Spec2Model ----
(***************************************************************************)
(* NoteAI: the note model (models/note.py), the vector store               *)
(* (database/vector_store.py) and the indexer (indexer/note_indexer.py).   *)
(*                                                                         *)
(* Text is modelled at the level the regular expressions of the code look  *)
(* at it: a text is a sequence of lines (the lines of the string, joined   *)
(* by "\n"), a line is a sequence of tokens, and a token is either one     *)
(* character the code tests for ("#", " ") or a run of characters it only  *)
(* ever treats as a unit ("tags:", "Tags:", "TAGS:", "Alpha", ...).        *)
(* A path is the sequence of its components (pathlib's Path.parts), and a  *)
(* component is [stem, suffix] (Path.stem, Path.suffix).                   *)
(***************************************************************************)
EXTENDS Integers, Sequences, FiniteSets, TLC

VARIABLES
    vault_path,        \* NoteIndexer.vault_path (parts of the vault root)
    files,             \* the file system below the vault: relative path -> text
    points,            \* the records of the Qdrant collection
    indexed_files,     \* NoteIndexer.indexed_files
    last,              \* what the last operation did (calls made, exception raised)
    search_result,     \* the backend's ranked hits handed to VectorStore.search
    limit,             \* VectorStore.search's limit
    notes,             \* the list VectorStore.search returned
    markdown_content,  \* Note.from_markdown's first argument
    file_path,         \* Note.from_markdown's second argument
    note,              \* what Note.from_markdown returned
    pc,                \* where the operation in progress stands
    session_state,     \* app.py: st.session_state
    ui,                \* app.py: what the last run of the script put on the page
    lock               \* who holds the lock of the Qdrant storage folder

vars == <<vault_path, files, points, indexed_files, last,
          search_result, limit, notes, markdown_content, file_path, note, pc,
          session_state, ui, lock>>

indexerVars == <<vault_path, files, points, indexed_files, last>>
searchVars == <<search_result, limit, notes, pc>>
noteVars == <<markdown_content, file_path, note>>
appVars == <<session_state, ui, lock>>

(***************************************************************************)
(* Bounds of the model.                                                    *)
(***************************************************************************)
MaxLines == 4
MaxLimit == 3
MaxScore == 2
MaxContent == 3

(***************************************************************************)
(* Strings.                                                                *)
(***************************************************************************)
Whitespace == {" "}

IsBlank(line) == \A i \in 1..Len(line) : line[i] \in Whitespace

RECURSIVE LStrip(_)
LStrip(s) == IF s # <<>> /\ Head(s) \in Whitespace THEN LStrip(Tail(s)) ELSE s

RECURSIVE RStrip(_)
RStrip(s) ==
    IF s # <<>> /\ s[Len(s)] \in Whitespace
    THEN RStrip(SubSeq(s, 1, Len(s) - 1))
    ELSE s

\* str.strip() of one line
Strip(s) == RStrip(LStrip(s))

RECURSIVE DropBlankHead(_)
DropBlankHead(t) ==
    IF t # <<>> /\ IsBlank(Head(t)) THEN DropBlankHead(Tail(t)) ELSE t

RECURSIVE DropBlankTail(_)
DropBlankTail(t) ==
    IF t # <<>> /\ IsBlank(t[Len(t)])
    THEN DropBlankTail(SubSeq(t, 1, Len(t) - 1))
    ELSE t

\* str.strip() of a text of several lines: newlines are whitespace too
StripText(t) ==
    LET b == DropBlankTail(DropBlankHead(t))
    IN  IF b = <<>> THEN <<>>
        ELSE IF Len(b) = 1 THEN <<Strip(b[1])>>
        ELSE <<LStrip(b[1])>> \o SubSeq(b, 2, Len(b) - 1) \o <<RStrip(b[Len(b)])>>

(***************************************************************************)
(* frontmatter.loads (python-frontmatter with its YAML handler), as        *)
(* Note.from_markdown uses it.                                             *)
(***************************************************************************)
YamlError == [error |-> "YamlError"]
NoMetadata == [title |-> <<>>, tags |-> <<>>]
MappingKeys == {"title:", "tags:", "Tags:", "TAGS:"}

\* the handler's FM_BOUNDARY, ^-{3,}\s*$
IsBoundary(line) == RStrip(line) = <<"---">>

IsYamlComment(line) == IsBlank(line) \/ Head(LStrip(line)) = "#"
IsYamlMapping(line) == ~IsYamlComment(line) /\ Head(LStrip(line)) \in MappingKeys
Indent(line) == Len(line) - Len(LStrip(line))

RECURSIVE YamlDict(_, _)
YamlDict(sig, acc) ==
    IF sig = <<>> THEN acc
    ELSE LET l == LStrip(Head(sig))
             v == Strip(Tail(l))
             next == IF Head(l) = "title:" THEN [acc EXCEPT !.title = v]
                     ELSE IF Head(l) = "tags:" THEN [acc EXCEPT !.tags = v]
                     ELSE acc
         IN  YamlDict(Tail(sig), next)

\* yaml.load of the block between the boundaries, then metadata.update(fm)
\* when fm is a dict
YamlLoad(block) ==
    LET sig == SelectSeq(block, LAMBDA l : ~IsYamlComment(l))
    IN  IF \A i \in 1..Len(sig) : ~IsYamlMapping(sig[i])
        THEN NoMetadata           \* nothing, or one plain scalar: not a dict
        ELSE IF \A i \in 1..Len(sig) :
                    IsYamlMapping(sig[i]) /\ Indent(sig[i]) = Indent(sig[1])
        THEN YamlDict(sig, NoMetadata)
        ELSE YamlError

SecondBoundary(t) ==
    LET later == {j \in 2..Len(t) : IsBoundary(t[j])}
    IN  IF later = {} THEN 0
        ELSE CHOOSE j \in later : \A k \in later : j <= k

\* post = frontmatter.loads(text): [metadata, content], or YamlError raised
FrontmatterLoads(text) ==
    LET t == StripText(text)
        j == SecondBoundary(t)
    IN  IF t = <<>> \/ ~IsBoundary(t[1]) \/ j = 0
        THEN [metadata |-> NoMetadata, content |-> t]
        ELSE LET fm == YamlLoad(SubSeq(t, 2, j - 1))
             IN  IF fm = YamlError THEN YamlError
                 ELSE [metadata |-> fm,
                       content |-> StripText(SubSeq(t, j + 1, Len(t)))]

(***************************************************************************)
(* models/note.py                                                          *)
(***************************************************************************)
\* from_markdown raised; from_markdown has not run yet
Raised == [raised |-> TRUE]
NoNote == [pending |-> TRUE]

\* the same test without line.strip()
IsTagsLineUnstripped(line) == line # <<>> /\ Head(line) \in {"tags:", "Tags:"}

\* re.match(r"^[Tt]ags:\s*", line.strip())
IsTagsLine(line) ==
    LET s == Strip(line) IN s # <<>> /\ Head(s) \in {"tags:", "Tags:"}

\* the lines of the body that are kept, joined, stripped
CleanBody(content) == StripText(SelectSeq(content, LAMBDA l : ~IsTagsLine(l)))

\* re.search(r"^#\s*(.*)", body, re.MULTILINE): the index of the first line
\* that starts with "#", 0 when there is none
H1MatchLine(body) ==
    LET hits == {i \in 1..Len(body) : body[i] # <<>> /\ Head(body[i]) = "#"}
    IN  IF hits = {} THEN 0 ELSE CHOOSE i \in hits : \A k \in hits : i <= k

\* group(1) of that match: \s* is greedy and also runs over newlines, so when
\* nothing but whitespace follows the "#" on its line, the group is the rest
\* of the next line that has anything but whitespace on it
H1Group(body) ==
    LET i == H1MatchLine(body)
        rest == LStrip(Tail(body[i]))
        later == {k \in (i + 1)..Len(body) : ~IsBlank(body[k])}
    IN  IF rest # <<>> THEN rest
        ELSE IF later = {} THEN <<>>
        ELSE LStrip(body[CHOOSE k \in later : \A m \in later : k <= m])

\* Path(file_path).stem
Stem(path) == path[Len(path)].stem

\* the title from_markdown settles on
Title(metadata, body, path) ==
    IF metadata.title # <<>> THEN metadata.title
    ELSE IF H1MatchLine(body) # 0 THEN Strip(H1Group(body))
    ELSE <<Stem(path)>>

\* Note.from_markdown(markdown_content, file_path)
from_markdown(text, path) ==
    LET post == FrontmatterLoads(text)
    IN  IF post = YamlError THEN Raised
        ELSE LET body == CleanBody(post.content)
             IN  [title |-> Title(post.metadata, body, path),
                  content |-> body,
                  tags |-> post.metadata.tags,
                  file_path |-> path]

(***************************************************************************)
(* The inputs of Note.from_markdown: every text of at most MaxLines lines   *)
(* over these lines, and two file paths.                                   *)
(***************************************************************************)
Lines ==
    { <<"---">>,
      <<"title:", " ", "T">>,
      <<"title:">>,
      <<"tags:", " ", "[x]">>,
      <<" ", "Tags:", " ", "[x]">>,
      <<"TAGS:", " ", "[x]">>,
      <<"#", " ", "Alpha">>,
      <<"#", "#", " ", "Sub">>,
      <<"#">>,
      <<"text">>,
      <<>> }

Texts == UNION {[1..k -> Lines] : k \in 0..MaxLines}

Dir(name) == [stem |-> name, suffix |-> ""]
File(stem, suffix) == [stem |-> stem, suffix |-> suffix]

NotePaths ==
    { <<Dir("vault"), File("a", ".md")>>,
      <<Dir("vault"), Dir("sub"), File("c", ".md")>> }

InitNote ==
    /\ markdown_content \in Texts
    /\ file_path \in NotePaths
    /\ note = NoNote
    /\ session_state = <<>>
    /\ ui = <<>>
    /\ lock = "none"
    /\ vault_path = <<>>
    /\ files = <<>>
    /\ points = {}
    /\ indexed_files = {}
    /\ last = <<>>
    /\ search_result = <<>>
    /\ limit = 0
    /\ notes = <<>>
    /\ pc = "start"

\* one call of Note.from_markdown
ParseNote ==
    /\ note = NoNote
    /\ note' = from_markdown(markdown_content, file_path)
    /\ UNCHANGED <<markdown_content, file_path, indexerVars, searchVars, appVars>>

NextNote == ParseNote

SpecNote == InitNote /\ [][NextNote]_vars

NoteBuilt == note # NoNote /\ note # Raised

(***************************************************************************)
(* database/vector_store.py                                                *)
(***************************************************************************)
NAMESPACE_NOTE_IDS == "f83a5e8f-7f6b-4e0c-8c5a-3f5d6a8e9c1b"

\* an id drawn afresh on every call, as uuid.uuid4() would
NoteIdFresh(path) ==
    [uuid4 |-> Cardinality(points), name |-> path]

\* str(uuid.uuid5(NAMESPACE_NOTE_IDS, file_path)): a hash of namespace and
\* name, the same for the same name and different for different names
NoteId(path) == [namespace |-> NAMESPACE_NOTE_IDS, name |-> path]

Payload(n) ==
    [title |-> n.title, content |-> n.content, tags |-> n.tags,
     file_path |-> n.file_path]

\* client.upsert of one point: a point of the same id is replaced
Upsert(pts, point) == {pt \in pts : pt.id # point.id} \cup {point}

\* the collection after VectorStore.add_note(note, embedding)
add_note(pts, n, embedding) ==
    Upsert(pts, [id |-> NoteId(n.file_path), vector |-> embedding,
                 payload |-> Payload(n)])

\* the collection after VectorStore.delete_note(note_id): client.delete of an
\* id that has no point deletes nothing
delete_note(pts, note_id) == {pt \in pts : pt.id # note_id}

NoFilePath == <<>>

Hit(h) ==
    [title |-> h.payload.title, content |-> h.payload.content,
     file_path |-> h.payload.file_path, score |-> h.score]

\* the loop of VectorStore.search without seen_file_paths
RECURSIVE SearchLoopNoSeen(_, _, _)
SearchLoopNoSeen(hits, acc, seen) ==
    IF hits = <<>> THEN acc
    ELSE IF Head(hits).payload.file_path # NoFilePath
         THEN SearchLoopNoSeen(Tail(hits), Append(acc, Hit(Head(hits))), seen)
         ELSE SearchLoopNoSeen(Tail(hits), acc, seen)

\* the loop of VectorStore.search with a later hit replacing an earlier one
\* of the same file_path
RECURSIVE SearchLoopKeepLast(_, _, _)
SearchLoopKeepLast(hits, acc, seen) ==
    IF hits = <<>> THEN acc
    ELSE LET fp == Head(hits).payload.file_path
         IN  IF fp # NoFilePath
             THEN SearchLoopKeepLast(
                      Tail(hits),
                      Append(SelectSeq(acc, LAMBDA n : n.file_path # fp),
                             Hit(Head(hits))),
                      seen \cup {fp})
             ELSE SearchLoopKeepLast(Tail(hits), acc, seen)

\* the loop of VectorStore.search over the backend's hits
RECURSIVE SearchLoop(_, _, _)
SearchLoop(hits, acc, seen) ==
    IF hits = <<>> THEN acc
    ELSE LET fp == Head(hits).payload.file_path
         IN  IF fp # NoFilePath /\ fp \notin seen
             THEN SearchLoop(Tail(hits), Append(acc, Hit(Head(hits))),
                             seen \cup {fp})
             ELSE SearchLoop(Tail(hits), acc, seen)

(***************************************************************************)
(* VectorStore.search as a function of what client.search hands back: at   *)
(* most limit hits, highest score first. Hits of one file_path may repeat  *)
(* (points the collection holds under other ids), and a payload may lack   *)
(* its file_path.                                                          *)
(***************************************************************************)
HitPaths ==
    { NoFilePath,
      <<Dir("vault"), File("a", ".md")>>,
      <<Dir("vault"), Dir("sub"), File("c", ".md")>> }

BackendHits ==
    [payload : [title : {<<"Alpha">>}, content : {<<<<"one">>>>, <<<<"two">>>>},
                file_path : HitPaths],
     score : 1..MaxScore]

Ranked(hits) == \A i \in 1..(Len(hits) - 1) : hits[i].score >= hits[i + 1].score

Rankings(n) == {hits \in UNION {[1..k -> BackendHits] : k \in 0..n} : Ranked(hits)}

InitSearch ==
    /\ limit \in 1..MaxLimit
    /\ search_result \in Rankings(limit)
    /\ notes = <<>>
    /\ pc = "start"
    /\ vault_path = <<>>
    /\ files = <<>>
    /\ points = {}
    /\ indexed_files = {}
    /\ last = <<>>
    /\ markdown_content = <<>>
    /\ file_path = <<>>
    /\ note = NoNote
    /\ session_state = <<>>
    /\ ui = <<>>
    /\ lock = "none"

\* VectorStore.search returns
Search ==
    /\ pc = "start"
    /\ notes' = SearchLoop(search_result, <<>>, {})
    /\ pc' = "done"
    /\ UNCHANGED <<search_result, limit, indexerVars, noteVars, appVars>>

\* client.search raises, and so does VectorStore.search
SearchRaises ==
    /\ pc = "start"
    /\ pc' = "raised"
    /\ UNCHANGED <<search_result, limit, notes, indexerVars, noteVars, appVars>>

NextSearch == Search \/ SearchRaises

SpecSearch == InitSearch /\ [][NextSearch]_vars

(***************************************************************************)
(* The store on its own: any sequence of add_note and delete_note calls.   *)
(***************************************************************************)
\* the embedding provider's vector for a text
Embed(text) == [embedding_of |-> text]

StoreNotes ==
    [title : {<<"Alpha">>}, content : {<<<<"one">>>>, <<<<"two">>>>},
     tags : {<<>>}, file_path : HitPaths \ {NoFilePath}]

Vectors == {Embed(<<<<"one">>>>), Embed(<<<<"two">>>>)}

WithPath(pts, fp) == {pt \in pts : pt.payload.file_path = fp}

InitStore ==
    /\ points = {}
    /\ last = [op |-> "init"]
    /\ vault_path = <<>>
    /\ files = <<>>
    /\ indexed_files = {}
    /\ search_result = <<>>
    /\ limit = 0
    /\ notes = <<>>
    /\ pc = "start"
    /\ markdown_content = <<>>
    /\ file_path = <<>>
    /\ note = NoNote
    /\ session_state = <<>>
    /\ ui = <<>>
    /\ lock = "none"

\* a call of VectorStore.add_note; client.upsert may raise, and then the
\* collection is as it was
StoreAddNote ==
    \E n \in StoreNotes, embedding \in Vectors, raised \in BOOLEAN :
        /\ points' = IF raised THEN points ELSE add_note(points, n, embedding)
        /\ last' = [op |-> "add_note", note |-> n, embedding |-> embedding,
                    raised |-> raised, prior |-> WithPath(points, n.file_path)]
        /\ UNCHANGED <<vault_path, files, indexed_files, searchVars, noteVars, appVars>>

\* a call of VectorStore.delete_note
StoreDeleteNote ==
    \E fp \in HitPaths \ {NoFilePath}, raised \in BOOLEAN :
        /\ points' = IF raised THEN points ELSE delete_note(points, NoteId(fp))
        /\ last' = [op |-> "delete_note", note_id |-> NoteId(fp), raised |-> raised]
        /\ UNCHANGED <<vault_path, files, indexed_files, searchVars, noteVars, appVars>>

NextStore == StoreAddNote \/ StoreDeleteNote

SpecStore == InitStore /\ [][NextStore]_vars

(***************************************************************************)
(* indexer/note_indexer.py                                                 *)
(***************************************************************************)
SUPPORTED_EXTENSIONS ==
    { ".md", ".txt", ".text", ".pdf", ".csv", ".doc", ".docx", ".xlsx",
      ".html", ".htm", ".js", ".ts", ".kt", ".java", ".py", ".json", ".xml" }

EXCLUDE_DIRS == {".obsidian", "qdrant_data"}

\* str.lower() of the suffixes the model's files have
Lower(suffix) == IF suffix = ".MD" THEN ".md" ELSE suffix

\* Path(file_path).suffix.lower()
Ext(path) == Lower(path[Len(path)].suffix)

\* excluded_dir in file_path_obj.parts
InParts(excluded_dir, path) ==
    \E i \in 1..Len(path) : path[i] = Dir(excluded_dir)

\* the files that may exist below the vault root, by their relative paths
VaultFiles ==
    { <<File("a", ".md")>>,
      <<Dir("sub"), File("c", ".MD")>>,
      <<Dir(".obsidian"), File("config", ".json")>>,
      <<Dir("sub"), Dir("qdrant_data"), File("d", ".md")>>,
      <<File("img", ".png")>> }

\* the vault roots: an ordinary one, and one that lies below a directory
\* that has the name of an excluded one
VaultRoots ==
    { <<Dir("vault")>>,
      <<Dir("qdrant_data"), Dir("vault")>> }

\* the texts a file may hold: 1 is a note with a heading, 2 a note whose
\* front matter is not valid YAML, the others plain text
Doc(c) ==
    IF c = 1 THEN << <<"#", " ", "Alpha">>, <<"content A">> >>
    ELSE IF c = 2 THEN << <<"---">>, <<"title:", " ", "T">>, <<"text">>,
                          <<"---">>, <<"body">> >>
    ELSE [i \in 1..(c - 2) |-> <<"plain B">>]

NoFile == 0

\* the texts the model lets a file take: a.md is created, edited and removed,
\* sub/c.MD is created and removed, and the other files are there throughout
FileContents(rel) ==
    IF rel = <<File("a", ".md")>> THEN 1..MaxContent
    ELSE IF rel = <<Dir("sub"), File("c", ".MD")>> THEN {1}
    ELSE {}

Prefix(path, n) == SubSeq(path, 1, n)

\* os.walk(vault_path, topdown=True) with dirs[:] pruned by EXCLUDE_DIRS:
\* the relative paths of the files of the directories it visits
RECURSIVE Walk(_, _)
Walk(fs, dir) ==
    LET n == Len(dir)
        below == {r \in DOMAIN fs : fs[r] # NoFile /\ Len(r) > n /\ Prefix(r, n) = dir}
        here == {r \in below : Len(r) = n + 1}
        dirs == {r[n + 1] : r \in below \ here}
        kept == {d \in dirs : \A x \in EXCLUDE_DIRS : d # Dir(x)}
    IN  here \cup UNION {Walk(fs, Append(dir, d)) : d \in kept}

\* Note.from_markdown(content, file_path) for the texts and paths of the
\* vault, tabulated
VaultPaths == {root \o rel : root \in VaultRoots, rel \in VaultFiles}
ParsedNote ==
    [c \in 1..MaxContent, path \in VaultPaths |-> from_markdown(Doc(c), path)]
        @@ <<>>    \* (makes TLC compute the table once)

\* what one operation of the indexer works on and leaves behind
Begin(pts, indexed) ==
    [points |-> pts, indexed |-> indexed, calls |-> {}, opened |-> {},
     upserted |-> {}, failed |-> {}, deleted |-> {}, raised |-> FALSE]

Outcomes == {"ok", "extract", "embed", "upsert"}

\* index_file without its try/except: the exception leaves index_file
Uncaught(st, path) == [st EXCEPT !.failed = @ \cup {path}, !.raised = TRUE]

\* the except branch of index_file: the error is printed
Caught(st, path) == [st EXCEPT !.failed = @ \cup {path}]

\* remove_file without its membership test: set.remove raises KeyError
remove_file_unchecked(st, path, delete_raises) ==
    [st EXCEPT
        !.points = IF delete_raises THEN @ ELSE delete_note(@, NoteId(path)),
        !.deleted = @ \cup {NoteId(path)},
        !.failed = IF delete_raises THEN @ \cup {path} ELSE @,
        !.indexed = @ \ {path},
        !.raised = path \notin st.indexed]

\* remove_file without its try/except: the exception of delete_note leaves
\* remove_file before the path is taken from the set
remove_file_uncaught(st, path, delete_raises) ==
    IF path \notin st.indexed THEN st
    ELSE IF delete_raises
    THEN [st EXCEPT !.deleted = @ \cup {NoteId(path)},
                    !.failed = @ \cup {path},
                    !.raised = TRUE]
    ELSE [st EXCEPT !.points = delete_note(@, NoteId(path)),
                    !.deleted = @ \cup {NoteId(path)},
                    !.indexed = @ \ {path}]

\* remove_file with the id taken from the file's name, not from the path
\* add_note hashed
remove_file_by_name(st, path, delete_raises) ==
    IF path \in st.indexed
    THEN [st EXCEPT
             !.points = IF delete_raises THEN @
                        ELSE delete_note(@, NoteId(<<path[Len(path)]>>)),
             !.deleted = @ \cup {NoteId(<<path[Len(path)]>>)},
             !.failed = IF delete_raises THEN @ \cup {path} ELSE @,
             !.indexed = @ \ {path}]
    ELSE st

\* NoteIndexer.index_file(file_path): text is what the file holds (NoFile:
\* there is no such file), outcome is where the chain fails, if it does
index_file(st, path, text, outcome) ==
    LET called == [st EXCEPT !.calls = @ \cup {path}]
        tried == [called EXCEPT !.opened = @ \cup {path}]
        n == ParsedNote[text, path]
    IN  IF \E x \in EXCLUDE_DIRS : InParts(x, path) THEN called
        ELSE IF Ext(path) \notin SUPPORTED_EXTENSIONS THEN called
        ELSE IF text = NoFile \/ outcome = "extract" THEN Caught(tried, path)
        ELSE IF n = Raised THEN Caught(tried, path)
        ELSE IF outcome = "embed" THEN Caught(tried, path)
        ELSE IF outcome = "upsert" THEN Caught(tried, path)
        ELSE [tried EXCEPT
                 !.points = add_note(@, n, Embed(n.content)),
                 !.upserted = @ \cup {path},
                 !.indexed = @ \cup {path}]

\* NoteIndexer.remove_file(file_path)
remove_file(st, path, delete_raises) ==
    IF path \in st.indexed
    THEN [st EXCEPT
             !.points = IF delete_raises THEN @ ELSE delete_note(@, NoteId(path)),
             !.deleted = @ \cup {NoteId(path)},
             !.failed = IF delete_raises THEN @ \cup {path} ELSE @,
             !.indexed = @ \ {path}]
    ELSE st

\* the loops of full_index and incremental_index over the files of the walk;
\* an exception that leaves index_file would end the loop
RECURSIVE Sweep(_, _, _, _, _)
Sweep(st, root, fs, todo, outcome) ==
    IF todo = {} \/ st.raised THEN st
    ELSE LET rel == CHOOSE r \in todo : TRUE
             path == root \o rel
             next == IF Ext(path) \in SUPPORTED_EXTENSIONS
                     THEN index_file(st, path, fs[rel], outcome[rel])
                     ELSE st
         IN  Sweep(next, root, fs, todo \ {rel}, outcome)

RECURSIVE SweepNew(_, _, _, _, _)
SweepNew(st, root, fs, todo, outcome) ==
    IF todo = {} \/ st.raised THEN st
    ELSE LET rel == CHOOSE r \in todo : TRUE
             path == root \o rel
             next == IF Ext(path) \in SUPPORTED_EXTENSIONS /\ path \notin st.indexed
                     THEN index_file(st, path, fs[rel], outcome[rel])
                     ELSE st
         IN  SweepNew(next, root, fs, todo \ {rel}, outcome)

\* the files of the walk that have a supported extension
Found(root, fs) == {rel \in Walk(fs, <<>>) : Ext(root \o rel) \in SUPPORTED_EXTENSIONS}

\* NoteIndexer.full_index()
full_index(pts, root, fs, outcome) ==
    Sweep(Begin(pts, {}), root, fs, Walk(fs, <<>>), outcome)

\* incremental_index without its test of indexed_files
incremental_index_all(pts, indexed, root, fs, outcome) ==
    Sweep(Begin(pts, indexed), root, fs, Walk(fs, <<>>), outcome)

\* NoteIndexer.incremental_index()
incremental_index(pts, indexed, root, fs, outcome) ==
    SweepNew(Begin(pts, indexed), root, fs, Walk(fs, <<>>), outcome)

\* the record of an operation: what it was, what it followed, what it did
Done(op, arg, st) ==
    [op |-> op, after |-> last.op, arg |-> arg, calls |-> st.calls, opened |-> st.opened,
     upserted |-> st.upserted, failed |-> st.failed, deleted |-> st.deleted,
     raised |-> st.raised]

Init ==
    /\ vault_path \in VaultRoots
    /\ files \in [VaultFiles -> {NoFile, 1}]
    /\ \A rel \in VaultFiles : FileContents(rel) = {} => files[rel] = 1
    /\ points = {}
    /\ indexed_files = {}
    /\ last = [op |-> "init", after |-> "init", arg |-> <<>>, calls |-> {},
               opened |-> {}, upserted |-> {}, failed |-> {}, deleted |-> {},
               raised |-> FALSE]
    /\ search_result = <<>>
    /\ limit = 0
    /\ notes = <<>>
    /\ pc = "start"
    /\ markdown_content = <<>>
    /\ file_path = <<>>
    /\ note = NoNote
    /\ session_state = <<>>
    /\ ui = <<>>
    /\ lock = "none"

Finish(op, arg, st) ==
    /\ points' = st.points
    /\ indexed_files' = st.indexed
    /\ last' = Done(op, arg, st)
    /\ UNCHANGED <<vault_path, files, searchVars, noteVars, appVars>>

\* a file of the vault is written or edited
WriteFile ==
    \E rel \in VaultFiles : \E c \in FileContents(rel) :
        /\ files[rel] # c
        /\ files' = [files EXCEPT ![rel] = c]
        /\ last' = Done("write", rel, Begin(points, indexed_files))
        /\ UNCHANGED <<vault_path, points, indexed_files, searchVars, noteVars, appVars>>

\* a file of the vault is removed
DeleteFile ==
    \E rel \in VaultFiles :
        /\ FileContents(rel) # {}
        /\ files[rel] # NoFile
        /\ files' = [files EXCEPT ![rel] = NoFile]
        /\ last' = Done("delete", rel, Begin(points, indexed_files))
        /\ UNCHANGED <<vault_path, points, indexed_files, searchVars, noteVars, appVars>>

IndexFile ==
    \E rel \in VaultFiles, outcome \in Outcomes :
        Finish("index_file", vault_path \o rel,
               index_file(Begin(points, indexed_files), vault_path \o rel,
                          files[rel], outcome))

RemoveFile ==
    \E rel \in VaultFiles, delete_raises \in BOOLEAN :
        Finish("remove_file", vault_path \o rel,
               remove_file(Begin(points, indexed_files), vault_path \o rel,
                           delete_raises))

FullIndex ==
    \E outcome \in [Found(vault_path, files) -> Outcomes] :
        Finish("full_index", <<>>, full_index(points, vault_path, files, outcome))

IncrementalIndex ==
    \E outcome \in [Found(vault_path, files) -> Outcomes] :
        Finish("incremental_index", <<>>,
               incremental_index(points, indexed_files, vault_path, files, outcome))

Next ==
    \/ WriteFile
    \/ DeleteFile
    \/ IndexFile
    \/ RemoveFile
    \/ FullIndex
    \/ IncrementalIndex

Spec == Init /\ [][Next]_vars

(***************************************************************************)
(* VectorStore.list_all_notes over stores of every size up to MaxRecords.  *)
(* The list it returns is kept as a bag of its entries: the order of the   *)
(* scroll is that of the ids, which are hashes of the paths.               *)
(***************************************************************************)
\* client.scroll(collection_name, limit=1000): the limit of the one page read
ScrollLimit == 1000

\* re.sub(r'#{1,6}\s*(.*)', r'\1', text) on one line: the hash marks and the
\* whitespace after them go
RECURSIVE StripHashes(_)
StripHashes(line) ==
    IF line = <<>> THEN <<>>
    ELSE IF Head(line) = "#" THEN StripHashes(LStrip(Tail(line)))
    ELSE <<Head(line)>> \o StripHashes(Tail(line))

RECURSIVE JoinLines(_)
JoinLines(t) ==
    IF t = <<>> THEN <<>>
    ELSE IF Len(t) = 1 THEN Head(t)
    ELSE Head(t) \o <<" ">> \o JoinLines(Tail(t))

\* strip_markdown(text) of vector_store.py, for texts that hold headings and
\* plain lines: the lines without their hash marks, joined by single spaces
strip_markdown(t) ==
    Strip(JoinLines(
        SelectSeq([i \in 1..Len(t) |-> Strip(StripHashes(t[i]))],
                  LAMBDA l : l # <<>>)))

StartsWithTitle(text, title) ==
    /\ Len(title) <= Len(text)
    /\ SubSeq(text, 1, Len(title)) = title

\* the preview of list_all_notes (the texts of the model are shorter than
\* preview_chars, so none is cut)
Preview(content, title) ==
    LET cleaned == CleanBody(content)
        preview_text == strip_markdown(cleaned)
    IN  IF StartsWithTitle(preview_text, title)
        THEN Strip(StripHashes(Strip(SubSeq(preview_text, Len(title) + 1,
                                            Len(preview_text)))))
        ELSE preview_text

Entry(pt) ==
    [title |-> pt.payload.title,
     preview |-> Preview(pt.payload.content, pt.payload.title)]

\* the points of the first page of client.scroll: the first limit points in
\* the order of their ids
RECURSIVE Scroll(_, _)
Scroll(pts, n) ==
    IF Cardinality(pts) <= n THEN pts
    ELSE Scroll(pts \ {CHOOSE pt \in pts : TRUE}, n)

\* VectorStore.list_all_notes(): the bag of the entries of the list returned
list_all_notes(pts) ==
    IF Cardinality(pts) = 0 THEN <<>>
    ELSE LET page == Scroll(pts, ScrollLimit)
             entries == {Entry(pt) : pt \in page}
         IN  [e \in entries |-> Cardinality({pt \in page : Entry(pt) = e})]

MaxRecords == 1001

\* the i-th file of a large vault and the note index_file builds from it
BulkPath(i) ==
    IF i % 2 = 1 THEN <<Dir("vault"), Dir(ToString(i)), File("a", ".md")>>
    ELSE <<Dir("vault"), Dir(ToString(i)), File("b", ".txt")>>

BulkNote(i) == from_markdown(Doc(IF i % 2 = 1 THEN 1 ELSE 3), BulkPath(i))

BulkPoint(i) ==
    [id |-> NoteId(BulkPath(i)), vector |-> Embed(BulkNote(i).content),
     payload |-> Payload(BulkNote(i))]

\* the collection the store is opened on: an empty one, or the persisted
\* records of a vault of MaxRecords files
InitList ==
    /\ \E n \in {0, MaxRecords} : points = {BulkPoint(i) : i \in 1..n}
    /\ last = [op |-> "init"]
    /\ vault_path = <<>>
    /\ files = <<>>
    /\ indexed_files = {}
    /\ search_result = <<>>
    /\ limit = 0
    /\ notes = <<>>
    /\ pc = "start"
    /\ markdown_content = <<>>
    /\ file_path = <<>>
    /\ note = NoNote
    /\ session_state = <<>>
    /\ ui = <<>>
    /\ lock = "none"

\* add_note of the next file of the vault
ListAddNote ==
    LET n == BulkNote(Cardinality(points) + 1)
    IN  /\ Cardinality(points) < MaxRecords
        /\ points' = add_note(points, n, Embed(n.content))
        /\ last' = [op |-> "add_note"]
        /\ UNCHANGED <<vault_path, files, indexed_files, searchVars, noteVars, appVars>>

\* delete_note of the file added last
ListDeleteNote ==
    /\ points # {}
    /\ points' = delete_note(points, NoteId(BulkPath(Cardinality(points))))
    /\ last' = [op |-> "delete_note"]
    /\ UNCHANGED <<vault_path, files, indexed_files, searchVars, noteVars, appVars>>

\* a call of VectorStore.list_all_notes
ListAllNotes ==
    /\ last' = [op |-> "list_all_notes", returned |-> list_all_notes(points)]
    /\ UNCHANGED <<vault_path, files, points, indexed_files, searchVars, noteVars, appVars>>

NextList == ListAddNote \/ ListDeleteNote \/ ListAllNotes

SpecList == InitList /\ [][NextList]_vars

\* the number of entries of a returned list, and of those with one title
Entries(returned) ==
    LET dom == DOMAIN returned
        SumOver[S \in SUBSET dom] ==
            IF S = {} THEN 0
            ELSE LET e == CHOOSE x \in S : TRUE
                 IN  returned[e] + SumOver[S \ {e}]
    IN  SumOver[dom]

Titled(returned, title) ==
    Entries([e \in {x \in DOMAIN returned : x.title = title} |-> returned[e]])

\* C11: list_all_notes returns exactly one entry per record of the store,
\* whatever the number of records, and each entry carries its record's title:
\* of every title the list holds as many entries as the store holds records.
C11_ListsEveryRecord ==
    last.op = "list_all_notes" =>
        /\ Entries(last.returned) = Cardinality(points)
        /\ \A pt \in points :
              Titled(last.returned, pt.payload.title)
                  = Cardinality({q \in points : q.payload.title = pt.payload.title})

(***************************************************************************)
(* app.py: one run of the script for a query, a move of the threshold       *)
(* slider, the AI toggle or the Clear Memory button. Scores and thresholds  *)
(* are in hundredths, the step of the slider.                              *)
(***************************************************************************)
\* st.session_state.get("relevance_threshold", 0.6), and the slider's value
DefaultThreshold == 60

\* search(self, query_embedding, limit: int = 5)
SearchLimit == 5

MaxChat == 2

QueryScores == {50, 60, 90}
Thresholds == {DefaultThreshold, 90}

\* the loop over relevant_notes_for_display with '>' in place of '>='
RECURSIVE UniqueNotesStrict(_, _, _)
UniqueNotesStrict(relevant, threshold, unique) ==
    IF relevant = <<>> THEN unique
    ELSE LET n == Head(relevant)
             fresh == \A i \in 1..Len(unique) : unique[i].file_path # n.file_path
         IN  UniqueNotesStrict(Tail(relevant), threshold,
                               IF fresh /\ n.score > threshold
                               THEN Append(unique, n) ELSE unique)

\* the loop over relevant_notes_for_display: unique_notes_display.values(),
\* in the order of insertion
RECURSIVE UniqueNotes(_, _, _)
UniqueNotes(relevant, threshold, unique) ==
    IF relevant = <<>> THEN unique
    ELSE LET n == Head(relevant)
             fresh == \A i \in 1..Len(unique) : unique[i].file_path # n.file_path
         IN  UniqueNotes(Tail(relevant), threshold,
                         IF fresh /\ n.score >= threshold
                         THEN Append(unique, n) ELSE unique)

\* sorted(..., key=lambda n: n['score'], reverse=True): a stable sort, so a
\* note goes behind the notes of the same score that came before it
RECURSIVE SortedByScore(_, _)
SortedByScore(todo, done) ==
    IF todo = <<>> THEN done
    ELSE LET n == Head(todo)
             k == Cardinality({i \in 1..Len(done) : done[i].score >= n.score})
         IN  SortedByScore(Tail(todo),
                           SubSeq(done, 1, k) \o <<n>> \o SubSeq(done, k + 1, Len(done)))

\* sorted_unique_notes_display
Present(relevant, threshold) ==
    SortedByScore(UniqueNotes(relevant, threshold, <<>>), <<>>)

\* what a run puts on the page: the relevant notes (of the threshold the
\* session held when they were rendered) and the exception that ended the
\* run, if one did
Render(ss) ==
    [relevant_notes |-> Present(ss.last_query_relevant_notes, ss.relevance_threshold),
     threshold |-> ss.relevance_threshold,
     exception |-> "none"]

\* the session state the first run of the script sets up
NewSession ==
    [chat_history |-> <<>>, ai_enabled |-> TRUE,
     last_query_relevant_notes |-> <<>>, relevance_threshold |-> DefaultThreshold]

\* the record a file of the vault has in the store once it is indexed
StoredPoint(rel, c) ==
    LET n == from_markdown(Doc(c), <<Dir("vault")>> \o rel)
    IN  [id |-> NoteId(n.file_path), vector |-> Embed(n.content), payload |-> Payload(n)]

PointA == StoredPoint(<<File("a", ".md")>>, 1)
PointC == StoredPoint(<<Dir("sub"), File("c", ".MD")>>, 3)

\* client.search(query_vector, limit): the limit nearest points, each once,
\* highest score first
Min(a, b) == IF a < b THEN a ELSE b

ClientSearch(pts, n) ==
    LET k == Min(Cardinality(pts), n)
        hit == {[payload |-> pt.payload, score |-> sc] : pt \in pts, sc \in QueryScores}
    IN  {h \in [1..k -> hit] :
            /\ Ranked(h)
            /\ \A i, j \in 1..k : h[i].payload = h[j].payload => i = j}

ListIntent == "list notes"
Queries == {"what is alpha", ListIntent}

\* the context of a run that did not call generate_response
NoContext == <<>>

User(query) == [role |-> "user", content |-> query]
Assistant(content) == [role |-> "assistant", content |-> content]

\* the end of a run of the script by an exception that nothing caught: the
\* page keeps what the run rendered before, and shows the exception
Propagated(ss, page, calls, context) ==
    [ss |-> ss, ui |-> [page EXCEPT !.exception = calls[Len(calls)]],
     calls |-> calls, context |-> context, raised |-> TRUE]

\* st.rerun(): the script runs again from the top
Rerun(ss, calls, context) ==
    [ss |-> ss, ui |-> Render(ss), calls |-> calls, context |-> context,
     raised |-> FALSE]

\* the rest of the handling of a query once the search has returned
Answer(ss, page, pts, query, relevant, fails, calls) ==
    LET listing == query = ListIntent
        lcalls == IF listing THEN Append(calls, "list_all_notes") ELSE calls
        listed == IF listing
                  THEN [ss EXCEPT !.chat_history =
                           Append(@, Assistant([listing |-> list_all_notes(pts)]))]
                  ELSE ss
        gcalls == Append(lcalls, "generate_response")
    IN  IF listing /\ fails = "list_all_notes"
        THEN Propagated(ss, page, lcalls, NoContext)
        ELSE IF ~ss.ai_enabled
        THEN Rerun([listed EXCEPT !.chat_history = Append(@, Assistant("AI is currently disabled"))],
                   lcalls, NoContext)
        ELSE IF fails = "generate_response"
        THEN Propagated(listed, page, gcalls, relevant)
        ELSE Rerun([listed EXCEPT !.chat_history =
                       Append(@, Assistant([answer_to |-> query]))],
                   gcalls, relevant)

\* "if query:" of main(): ranking is what client.search hands back
HandleQuery(ss, page, pts, query, ranking, fails) ==
    LET asked == [ss EXCEPT !.chat_history = Append(@, User(query))]
        relevant == SearchLoop(ranking, <<>>, {})
    IN  IF fails = "generate_embedding"
        THEN Propagated(asked, page, <<"generate_embedding">>, NoContext)
        ELSE IF fails = "search"
        THEN Propagated(asked, page, <<"generate_embedding", "search">>, NoContext)
        ELSE Answer([asked EXCEPT !.last_query_relevant_notes = relevant],
                    page, pts, query, relevant, fails,
                    <<"generate_embedding", "search">>)

InitQuery ==
    /\ points \in {{}, {PointA}, {PointA, PointC}}
    /\ session_state = NewSession
    /\ ui = Render(NewSession)
    /\ last = [op |-> "init"]
    /\ lock = "self"
    /\ vault_path = <<Dir("vault")>>
    /\ files = <<>>
    /\ indexed_files = {}
    /\ search_result = <<>>
    /\ limit = 0
    /\ notes = <<>>
    /\ pc = "start"
    /\ markdown_content = <<>>
    /\ file_path = <<>>
    /\ note = NoNote

queryFrame == <<vault_path, files, points, indexed_files, searchVars, noteVars, lock>>

\* the places where a query of this kind can fail, with the session as it is
Failures(ss, query) ==
    {"none", "generate_embedding", "search"}
        \cup (IF query = ListIntent THEN {"list_all_notes"} ELSE {})
        \cup (IF ss.ai_enabled THEN {"generate_response"} ELSE {})

\* what client.search hands back when it is reached
Searched(pts, fails) ==
    IF fails \in {"generate_embedding", "search"} THEN {<<>>}
    ELSE ClientSearch(pts, SearchLimit)

\* a run of the script with a query in the chat input
QueryRun ==
    \E query \in Queries :
    \E fails \in Failures(session_state, query) :
    \E ranking \in Searched(points, fails) :
        LET run == HandleQuery(session_state, Render(session_state), points,
                               query, ranking, fails)
        IN  /\ Len(session_state.chat_history) < MaxChat
            /\ session_state' = run.ss
            /\ ui' = run.ui
            /\ last' = [op |-> "query", query |-> query, calls |-> run.calls,
                        context |-> run.context, raised |-> run.raised,
                        asked |-> Len(session_state.chat_history) + 1]
            /\ UNCHANGED queryFrame

\* a run of the script after the threshold slider was moved: the page is
\* rendered before the slider's value is stored in the session state
SliderRun ==
    \E t \in Thresholds :
        /\ t # session_state.relevance_threshold
        /\ ui' = Render(session_state)
        /\ session_state' = [session_state EXCEPT !.relevance_threshold = t]
        /\ last' = [op |-> "slider"]
        /\ UNCHANGED queryFrame

\* a run of the script after the Enable AI toggle was switched
ToggleRun ==
    /\ ui' = Render(session_state)
    /\ session_state' = [session_state EXCEPT !.ai_enabled = ~@]
    /\ last' = [op |-> "toggle"]
    /\ UNCHANGED queryFrame

\* a run of the script after the Clear Memory button was pressed
ClearMemoryRun ==
    /\ ui' = Render(session_state)
    /\ session_state' = [session_state EXCEPT !.chat_history = <<>>,
                                               !.last_query_relevant_notes = <<>>]
    /\ last' = [op |-> "clear_memory"]
    /\ UNCHANGED queryFrame

NextQuery == QueryRun \/ SliderRun \/ ToggleRun \/ ClearMemoryRun

SpecQuery == InitQuery /\ [][NextQuery]_vars

(***************************************************************************)
(* app.py: the life of the store and the indexer of one session. The       *)
(* storage folder is locked by the one Qdrant client that has it open:     *)
(* the session's own, or that of another process or session.               *)
(***************************************************************************)
Services(vector_store, note_indexer) ==
    [vector_store |-> vector_store, note_indexer |-> note_indexer]

Page(error, exception, success) ==
    [error |-> error, exception |-> exception, success |-> success]

\* the record of a run of the script: Done, and what the run started from
AppDone(op, arg, st, constructed) ==
    [run |-> Done(op, arg, st), constructed |-> constructed,
     locked |-> constructed /\ lock = "other",
     prior |-> [points |-> points, indexed_files |-> indexed_files,
                session_state |-> session_state]]

Idle == pc = "idle"
Serving == Idle /\ session_state.vector_store = "open"

InitApp ==
    /\ session_state = Services("absent", FALSE)
    /\ ui = Page("none", "none", "none")
    /\ lock \in {"none", "other"}
    /\ pc = "idle"
    /\ vault_path = <<Dir("vault")>>
    /\ files = [rel \in VaultFiles |-> 1]
    /\ points = {}
    /\ indexed_files = {}
    /\ last = [op |-> "init"]
    /\ search_result = <<>>
    /\ limit = 0
    /\ notes = <<>>
    /\ markdown_content = <<>>
    /\ file_path = <<>>
    /\ note = NoNote

\* a run of the script in a session that has no vector_store: the store and
\* the indexer are constructed; QdrantClient raises RuntimeError when the
\* storage folder is locked, and the run reports it and stops
Startup ==
    /\ Idle
    /\ session_state.vector_store = "absent"
    /\ last' = [op |-> "startup",
                info |-> AppDone("startup", <<>>, Begin(points, {}), TRUE)]
    /\ IF lock = "other"
       THEN /\ ui' = Page("Qdrant database is locked", "none", "none")
            /\ UNCHANGED <<session_state, lock, indexed_files>>
       ELSE /\ ui' = Page("none", "none", "none")
            /\ session_state' = Services("open", TRUE)
            /\ lock' = "self"
            /\ indexed_files' = {}
    /\ UNCHANGED <<vault_path, files, points, searchVars, noteVars>>

\* what shutil.rmtree leaves of the collection when it fails: all of it, or
\* all but the files it had removed by then
Remains(pts) == {pts} \cup {pts \ {pt} : pt \in pts}

\* the Full Index button, up to the removal of the storage folder: the store
\* is closed, the store and the indexer leave the session state, and the
\* folder is removed; when that fails, the error is shown and main() returns
FullIndexTeardown ==
    \E rmtree \in {"ok", "PermissionError", "Exception"} :
    \E left \in (IF rmtree = "ok" THEN {{}} ELSE Remains(points)) :
        /\ Serving
        /\ session_state' = Services("absent", FALSE)
        /\ indexed_files' = {}
        /\ lock' = "none"
        /\ points' = left
        /\ pc' = IF rmtree = "ok" THEN "rebuild" ELSE "idle"
        /\ ui' = IF rmtree = "ok" THEN Page("none", "none", "none")
                 ELSE IF rmtree = "PermissionError"
                 THEN Page("Cannot perform full index", "none", "none")
                 ELSE Page("An unexpected error occurred", "none", "none")
        /\ last' = [op |-> "Full Index",
                    info |-> AppDone("teardown", rmtree, Begin(points, indexed_files), FALSE)]
        /\ UNCHANGED <<vault_path, files, search_result, limit, notes, noteVars>>

\* the new store and the new indexer of the Full Index button, after the
\* indexer's full_index()
Rebuilt(st) ==
    /\ ui' = Page("none", "none", "Full indexing complete!")
    /\ session_state' = Services("open", TRUE)
    /\ lock' = "self"
    /\ points' = st.points
    /\ indexed_files' = st.indexed
    /\ last' = [op |-> "Full Index",
                info |-> [AppDone("rebuild", <<>>, st, TRUE)
                             EXCEPT !.prior = last.info.prior]]

\* the Full Index button, from the construction of the new store on: nothing
\* catches the RuntimeError of a locked storage folder
FullIndexRebuild ==
    /\ pc = "rebuild"
    /\ pc' = "idle"
    /\ IF lock = "other"
       THEN /\ ui' = Page("none", "RuntimeError", "none")
            /\ last' = [op |-> "Full Index",
                        info |-> [AppDone("rebuild", <<>>, Begin(points, {}), TRUE)
                                     EXCEPT !.prior = last.info.prior]]
            /\ UNCHANGED <<session_state, lock, points, indexed_files>>
       ELSE \E outcome \in [Found(vault_path, files) -> Outcomes] :
                Rebuilt(full_index(points, vault_path, files, outcome))
    /\ UNCHANGED <<vault_path, files, search_result, limit, notes, noteVars>>

Swept(st) ==
    /\ points' = st.points
    /\ indexed_files' = st.indexed
    /\ ui' = Page("none", "none", "Incremental indexing complete!")
    /\ last' = [op |-> "Incremental Index",
                info |-> AppDone("incremental_index", <<>>, st, FALSE)]

\* the Incremental Index button
IncrementalIndexButton ==
    /\ Serving
    /\ \E outcome \in [Found(vault_path, files) -> Outcomes] :
          Swept(incremental_index(points, indexed_files, vault_path, files, outcome))
    /\ UNCHANGED <<vault_path, files, searchVars, noteVars, session_state, lock>>

\* VectorStore.clear_collection(): the collection is deleted and an empty
\* one is created
clear_collection(pts) == {}

\* the Clear Index button, with its checkbox ticked
ClearIndexButton ==
    /\ Serving
    /\ points' = clear_collection(points)
    /\ ui' = Page("none", "none", "Index cleared!")
    /\ last' = [op |-> "Clear Index",
                info |-> AppDone("clear_collection", <<>>, Begin(points, indexed_files), FALSE)]
    /\ UNCHANGED <<vault_path, files, indexed_files, searchVars, noteVars,
                   session_state, lock>>

\* the Delete Note button with the path of a file of the vault
DeleteNoteButton ==
    \E rel \in VaultFiles, delete_raises \in BOOLEAN :
        LET st == remove_file(Begin(points, indexed_files), vault_path \o rel,
                              delete_raises)
        IN  /\ Serving
            /\ FileContents(rel) # {}
            /\ last' = [op |-> "Delete Note",
                        info |-> AppDone("remove_file", vault_path \o rel, st, FALSE)]
            /\ IF files[rel] # NoFile
               THEN /\ files' = [files EXCEPT ![rel] = NoFile]
                    /\ points' = st.points
                    /\ indexed_files' = st.indexed
                    /\ ui' = Page("none", "none", "deleted!")
               ELSE /\ ui' = Page("not found", "none", "none")
                    /\ UNCHANGED <<files, points, indexed_files>>
            /\ UNCHANGED <<vault_path, searchVars, noteVars, session_state, lock>>

\* the process ends and a new one starts: the session state is gone, the
\* storage folder stays
Restart ==
    /\ Idle
    /\ session_state.vector_store = "open"
    /\ session_state' = Services("absent", FALSE)
    /\ indexed_files' = {}
    /\ lock' = "none"
    /\ ui' = Page("none", "none", "none")
    /\ last' = [op |-> "restart"]
    /\ UNCHANGED <<vault_path, files, points, searchVars, noteVars>>

\* another process, or another session of this one, opens the storage folder
OtherOpens ==
    /\ lock = "none"
    /\ lock' = "other"
    /\ UNCHANGED <<indexerVars, searchVars, noteVars, session_state, ui>>

\* and closes it
OtherCloses ==
    /\ lock = "other"
    /\ lock' = "none"
    /\ UNCHANGED <<indexerVars, searchVars, noteVars, session_state, ui>>

\* a file of the vault is removed outside the application
FileRemoved ==
    \E rel \in VaultFiles :
        /\ Idle
        /\ FileContents(rel) # {}
        /\ files[rel] # NoFile
        /\ files' = [files EXCEPT ![rel] = NoFile]
        /\ last' = [op |-> "file removed"]
        /\ UNCHANGED <<vault_path, points, indexed_files, searchVars,
                       noteVars, appVars>>

NextApp ==
    \/ Startup
    \/ FullIndexTeardown
    \/ FullIndexRebuild
    \/ IncrementalIndexButton
    \/ ClearIndexButton
    \/ DeleteNoteButton
    \/ Restart
    \/ OtherOpens
    \/ OtherCloses
    \/ FileRemoved

SpecApp == InitApp /\ [][NextApp]_vars

(***************************************************************************)
(* ai/openai_service.py: the chat history of OpenAIService. The n-th       *)
(* message added to a service has the content n, so that a message tells   *)
(* when it was added.                                                      *)
(***************************************************************************)
DefaultMaxHistory == 20
MinHistory == 1
MaxHistory == 20

\* the messages added to one service in a behaviour
MaxAdded == 24

\* the sizes set_history_size is called with
Sizes == {-1, 0, 1, 2, 3, 20, 25}

Max(a, b) == IF a > b THEN a ELSE b

ChatMessage(role, content) == [role |-> role, content |-> content]

\* OpenAIService.__init__
OpenAIService == [chat_history |-> <<>>, max_history |-> DefaultMaxHistory]

\* add_to_history that never evicts
add_to_history_unbounded(svc, role, content) ==
    [svc EXCEPT !.chat_history = Append(@, ChatMessage(role, content))]

\* OpenAIService.add_to_history(role, content)
add_to_history(svc, role, content) ==
    LET appended == Append(svc.chat_history, ChatMessage(role, content))
    IN  [svc EXCEPT !.chat_history =
            IF Len(appended) > svc.max_history THEN Tail(appended) ELSE appended]

\* OpenAIService.clear_history()
clear_history(svc) == [svc EXCEPT !.chat_history = <<>>]

\* while len(self.chat_history) > self.max_history: self.chat_history.pop(0)
RECURSIVE PopOldest(_, _)
PopOldest(history, max_history) ==
    IF Len(history) > max_history THEN PopOldest(Tail(history), max_history)
    ELSE history

\* OpenAIService.set_history_size(size)
set_history_size(svc, size) ==
    LET max_history == Max(MinHistory, Min(MaxHistory, size))
    IN  [chat_history |-> PopOldest(svc.chat_history, max_history),
         max_history |-> max_history]

\* OpenAIService.generate_response(query, context): the history takes the
\* query and the answer after client.chat.completions.create has returned;
\* when that call raises, the exception leaves generate_response
generate_response(svc, query, answer, create_raises) ==
    IF create_raises THEN svc
    ELSE add_to_history(add_to_history(svc, "user", query), "assistant", answer)

\* what was done to the service: the operation, the number of messages it
\* has been given so far, that number at the last clear_history, and whether
\* the operation raised
Served(op, added, cleared, raised) ==
    [op |-> op, added |-> added, cleared |-> cleared, raised |-> raised]

InitHistory ==
    /\ session_state = [openai_service |-> OpenAIService]
    /\ last = Served("init", 0, 0, FALSE)
    /\ ui = <<>>
    /\ lock = "none"
    /\ vault_path = <<Dir("vault")>>
    /\ files = <<>>
    /\ points = {}
    /\ indexed_files = {}
    /\ search_result = <<>>
    /\ limit = 0
    /\ notes = <<>>
    /\ pc = "start"
    /\ markdown_content = <<>>
    /\ file_path = <<>>
    /\ note = NoNote

historyFrame ==
    <<vault_path, files, points, indexed_files, searchVars, noteVars, ui, lock>>

\* the role of the n-th message of a conversation that alternates
RoleOf(n) == IF n % 2 = 1 THEN "user" ELSE "assistant"

\* a direct call of add_to_history, with the next message of the conversation
AddToHistory ==
    /\ last.added < MaxAdded
    /\ session_state' = [openai_service |->
           add_to_history(session_state.openai_service, RoleOf(last.added + 1),
                          last.added + 1)]
    /\ last' = Served("add_to_history", last.added + 1, last.cleared, FALSE)
    /\ UNCHANGED historyFrame

SetHistorySize ==
    \E size \in Sizes :
        /\ session_state' = [openai_service |->
               set_history_size(session_state.openai_service, size)]
        /\ last' = Served("set_history_size", last.added, last.cleared, FALSE)
        /\ UNCHANGED historyFrame

ClearHistory ==
    /\ session_state' = [openai_service |-> clear_history(session_state.openai_service)]
    /\ last' = Served("clear_history", last.added, last.added, FALSE)
    /\ UNCHANGED historyFrame

GenerateResponse ==
    \E create_raises \in BOOLEAN :
        /\ last.added + 2 <= MaxAdded
        /\ RoleOf(last.added + 1) = "user"
        /\ session_state' = [openai_service |->
               generate_response(session_state.openai_service, last.added + 1,
                                 last.added + 2, create_raises)]
        /\ last' = Served("generate_response",
                          IF create_raises THEN last.added ELSE last.added + 2,
                          last.cleared, create_raises)
        /\ UNCHANGED historyFrame

NextHistory == AddToHistory \/ SetHistorySize \/ ClearHistory \/ GenerateResponse

SpecHistory == InitHistory /\ [][NextHistory]_vars

(***************************************************************************)
(* Properties of the indexer.                                              *)
(***************************************************************************)
Sweeps == {"full_index", "incremental_index"}

\* the claims' eligible files: the files of the vault that have a supported
\* extension and no excluded directory among their ancestors below the root
UnderExcluded(rel) ==
    \E i \in 1..(Len(rel) - 1) : \E x \in EXCLUDE_DIRS : rel[i] = Dir(x)

Eligible ==
    {vault_path \o rel : rel \in
        {r \in VaultFiles : /\ files[r] # NoFile
                            /\ Lower(r[Len(r)].suffix) \in SUPPORTED_EXTENSIONS
                            /\ ~UnderExcluded(r)}}

Excluded == {vault_path \o rel : rel \in {r \in VaultFiles : UnderExcluded(r)}}

\* C4: remove_file of a path that is not in the indexed-file set does not
\* raise, issues no delete to the store and leaves the set and the store as
\* they were.
C4_RemoveUnindexedIsNoOp ==
    [][(last'.op = "remove_file" /\ last'.arg \notin indexed_files) =>
          /\ ~last'.raised
          /\ last'.deleted = {}
          /\ indexed_files' = indexed_files
          /\ points' = points]_vars

\* remove_file has run on a path outside the set (it issued no delete) while
\* the set and the store held other entries
C4_Witness ==
    /\ last.op = "remove_file"
    /\ last.deleted = {}
    /\ last.arg \notin indexed_files
    /\ indexed_files # {}
    /\ \E pt \in points : pt.payload.file_path = last.arg

\* C5 as claimed: with the vault unchanged, an incremental_index right after
\* a full_index or an incremental_index performs no upsert and adds no path.
C5_SecondSweepIndexesNothing ==
    [][(last.op \in Sweeps /\ last'.op = "incremental_index") =>
          /\ last'.upserted = {}
          /\ indexed_files' \subseteq indexed_files]_vars

\* C5 as amended: such an incremental_index upserts and adds no path other
\* than those whose indexing failed in the preceding run; after a run in
\* which no file failed it indexes zero files.
C5_SecondSweepIndexesOnlyFailed ==
    [][(last.op \in Sweeps /\ last'.op = "incremental_index") =>
          /\ last'.upserted \subseteq last.failed
          /\ indexed_files' \ indexed_files \subseteq last.failed
          /\ last.failed = {} => (points' = points /\ indexed_files' = indexed_files)]_vars

\* an incremental_index right after a sweep that indexed files and in which
\* none failed
C5_Witness ==
    /\ last.op = "incremental_index"
    /\ last.after \in Sweeps
    /\ last.upserted = {}
    /\ last.failed = {}
    /\ Cardinality(indexed_files) >= 2

\* C6: a sweep in which no file fails indexes exactly the eligible files, and
\* no file under an excluded directory is opened or upserted.
C6_IndexesExactlyEligible ==
    /\ (last.op = "full_index" /\ last.failed = {}) =>
          /\ indexed_files = Eligible
          /\ last.upserted = Eligible
    /\ (last.op = "incremental_index" /\ last.failed = {}) =>
          /\ Eligible \subseteq indexed_files
          /\ last.upserted \subseteq Eligible
    /\ last.op \in Sweeps =>
          /\ last.opened \cap Excluded = {}
          /\ last.upserted \cap Excluded = {}
          /\ last.opened \subseteq Eligible

\* C7: no failure leaves index_file; a sweep passes every eligible file to
\* index_file whether or not another file failed, and a path that failed is
\* not in the indexed-file set afterwards.
C7_FailureIsolated ==
    /\ last.op \in Sweeps \cup {"index_file"} => ~last.raised
    /\ last.op = "full_index" => Eligible \subseteq last.calls
    /\ last.op = "incremental_index" => Eligible \subseteq last.calls \cup indexed_files
    /\ last.op \in Sweeps => last.failed \cap indexed_files = {}

\* a full_index in which one file failed and another was indexed
C7_Witness ==
    /\ last.op = "full_index"
    /\ last.failed # {}
    /\ last.upserted # {}
    /\ last.failed \cap indexed_files = {}

\* C19: after remove_file(p) for a path p of the indexed-file set, p is not
\* in the set and no exception has propagated, whether the store's delete
\* succeeded or failed; when it failed, the record of p is still in the store.
C19_RemoveFileBestEffort ==
    [][(last'.op = "remove_file" /\ last'.arg \in indexed_files) =>
          /\ last'.arg \notin indexed_files'
          /\ ~last'.raised
          /\ last'.deleted = {NoteId(last'.arg)}
          /\ last'.arg \in last'.failed =>
                /\ points' = points
                /\ \E pt \in points' : pt.payload.file_path = last'.arg]_vars

\* remove_file of an indexed path whose delete failed in the store
C19_Witness ==
    /\ last.op = "remove_file"
    /\ last.deleted # {}
    /\ last.arg \in last.failed
    /\ last.arg \notin indexed_files
    /\ \E pt \in points : pt.payload.file_path = last.arg

\* the record the store holds of a file as it is now
Current(rel) ==
    LET n == ParsedNote[files[rel], vault_path \o rel]
    IN  [id |-> NoteId(n.file_path), vector |-> Embed(n.content), payload |-> Payload(n)]

C24_WalkAgreesWithIndexFile ==
    last.op \in Sweeps => last.calls \subseteq last.opened

(***************************************************************************)
(* Properties of VectorStore.add_note.                                     *)
(***************************************************************************)
\* C1: the store holds at most one record per file_path, and after an upsert
\* of a file_path exactly one record of it remains, with the content and the
\* embedding of that (the latest) call.
C1_OneRecordPerPath ==
    /\ \A p1, p2 \in points :
          p1.payload.file_path = p2.payload.file_path => p1 = p2
    /\ (last.op = "add_note" /\ ~last.raised) =>
          LET mine == WithPath(points, last.note.file_path)
          IN  /\ Cardinality(mine) = 1
              /\ \A pt \in mine : /\ pt.payload.content = last.note.content
                                  /\ pt.payload.title = last.note.title
                                  /\ pt.vector = last.embedding

\* a file_path upserted a second time, with another content and embedding
C1_Witness ==
    /\ last.op = "add_note"
    /\ ~last.raised
    /\ \E old \in last.prior : /\ old.payload.content # last.note.content
                               /\ old.vector # last.embedding

(***************************************************************************)
(* Properties of Note.from_markdown.                                       *)
(***************************************************************************)
\* Markdown's headings, as the specification speaks of them
IsHeading(line) == line # <<>> /\ Head(line) = "#"
IsLevel1Heading(line) == IsHeading(line) /\ (Len(line) = 1 \/ line[2] # "#")

RECURSIVE DropHashes(_)
DropHashes(line) ==
    IF line # <<>> /\ Head(line) = "#" THEN DropHashes(Tail(line)) ELSE line

HeadingText(line) == Strip(DropHashes(line))

FirstLevel1Heading(body) ==
    LET hs == {i \in 1..Len(body) : IsLevel1Heading(body[i])}
    IN  IF hs = {} THEN 0 ELSE CHOOSE i \in hs : \A k \in hs : i <= k

MetadataTitle == FrontmatterLoads(markdown_content).metadata.title

\* C8: the title is chosen in a fixed priority order: a non-empty metadata
\* title whenever present; otherwise the first level-1 heading of the cleaned
\* body; otherwise, when the body has no heading, the file name's stem.
C8_TitlePriority ==
    NoteBuilt =>
        LET body == note.content
            h == FirstLevel1Heading(body)
        IN  /\ MetadataTitle # <<>> => note.title = MetadataTitle
            /\ (MetadataTitle = <<>> /\ h # 0) => note.title = HeadingText(body[h])
            /\ (MetadataTitle = <<>> /\ \A i \in 1..Len(body) : ~IsHeading(body[i]))
                    => note.title = <<Stem(file_path)>>

\* C9: with no metadata title, the title is the text of the first level-1
\* heading line of the cleaned body, without its hash marks and surrounding
\* whitespace; an earlier deeper heading is not taken, and the title never
\* begins with a hash mark.
C9_HeadingTitle ==
    (NoteBuilt /\ MetadataTitle = <<>>) =>
        LET body == note.content
            h == FirstLevel1Heading(body)
        IN  /\ note.title = <<>> \/ Head(note.title) # "#"
            /\ h # 0 => note.title = HeadingText(body[h])

\* where the metadata block of the text ends (0: the text has none)
BlockEnd(text) ==
    LET t == StripText(text)
    IN  IF t # <<>> /\ IsBoundary(t[1]) THEN SecondBoundary(t) ELSE 0

\* the content holds lines of the text after its metadata block only
NoMetadataBlock ==
    LET t == StripText(markdown_content)
        j == BlockEnd(markdown_content)
    IN  /\ Len(note.content) <= Len(t) - j
        /\ \A i \in 1..Len(note.content) :
              \E k \in (j + 1)..Len(t) : Strip(note.content[i]) = Strip(t[k])

StartsWith(line, tokens) == Strip(line) # <<>> /\ Head(Strip(line)) \in tokens

\* C10 as claimed: the content holds no metadata block and no line that is a
\* "tags:" declaration in any letter case.
C10_NoTagsLineAnyCase ==
    NoteBuilt =>
        /\ NoMetadataBlock
        /\ \A i \in 1..Len(note.content) :
              ~StartsWith(note.content[i], {"tags:", "Tags:", "TAGS:"})

\* C10 as amended: the content holds no metadata block and no line that,
\* stripped, begins with "tags:" or "Tags:"; other letter cases are kept.
C10_NoTagsLine ==
    NoteBuilt =>
        /\ NoMetadataBlock
        /\ \A i \in 1..Len(note.content) :
              ~StartsWith(note.content[i], {"tags:", "Tags:"})

\* a note built from a text whose metadata block supplies tags and whose
\* body has a tags line as well
C10_Witness ==
    /\ NoteBuilt
    /\ note.tags # <<>>
    /\ \E i \in 1..Len(FrontmatterLoads(markdown_content).content) :
          IsTagsLine(FrontmatterLoads(markdown_content).content[i])

(***************************************************************************)
(* Properties of VectorStore.search.                                       *)
(***************************************************************************)
\* C2: the list VectorStore.search returns holds no two hits with the same
\* file_path.
C2_SearchNoDuplicatePath ==
    pc = "done" =>
        \A i, j \in 1..Len(notes) :
            notes[i].file_path = notes[j].file_path => i = j

\* a search over a ranking that holds two hits of one file_path
C2_Witness ==
    /\ pc = "done"
    /\ \E i, j \in 1..Len(search_result) :
          /\ i < j
          /\ search_result[i].payload.file_path # NoFilePath
          /\ search_result[i].payload.file_path = search_result[j].payload.file_path

\* the place of the first hit of a file_path in the backend's ranking
FirstRank(fp) ==
    CHOOSE i \in 1..Len(search_result) :
        /\ search_result[i].payload.file_path = fp
        /\ \A k \in 1..(i - 1) : search_result[k].payload.file_path # fp

RankedPaths ==
    {search_result[i].payload.file_path : i \in 1..Len(search_result)}

\* C3: VectorStore.search returns at most limit hits, in the relative order
\* of the backend's ranking (highest similarity first), and of several hits
\* of one file_path it keeps the first, highest-ranked one. (Every file_path
\* of the ranking is kept once; a hit whose payload has no file_path is not
\* returned.)
C3_SearchOrderAndFirst ==
    pc = "done" =>
        /\ Len(notes) <= limit
        /\ {notes[i].file_path : i \in 1..Len(notes)} = RankedPaths \ {NoFilePath}
        /\ \A i \in 1..Len(notes) :
              notes[i] = Hit(search_result[FirstRank(notes[i].file_path)])
        /\ \A i, j \in 1..Len(notes) :
              i < j => /\ FirstRank(notes[i].file_path) < FirstRank(notes[j].file_path)
                       /\ notes[i].score >= notes[j].score

\* a search over a ranking in which a file_path has a second hit that differs
\* from its first, ranked between the hits of another file_path
C3_Witness ==
    /\ pc = "done"
    /\ Len(notes) >= 2
    /\ \E i, j \in 1..Len(search_result) :
          /\ i < j
          /\ search_result[i].payload.file_path # NoFilePath
          /\ search_result[i].payload.file_path = search_result[j].payload.file_path
          /\ search_result[i].payload.content # search_result[j].payload.content

(***************************************************************************)
(* Properties of the handling of a query in app.py.                        *)
(***************************************************************************)
Answered == last.op = "query" /\ ~last.raised

\* the search hits of the last query that reach a threshold
Passing(threshold) ==
    {session_state.last_query_relevant_notes[i] :
        i \in {k \in 1..Len(session_state.last_query_relevant_notes) :
                  session_state.last_query_relevant_notes[k].score >= threshold}}

Generated == \E i \in 1..Len(last.calls) : last.calls[i] = "generate_response"

\* C13: every note handed to generate_response as context has a score
\* greater than or equal to the threshold: the context is the filtered,
\* ordered list, not the raw search result.
C13_ContextAboveThreshold ==
    (last.op = "query" /\ Generated) =>
        /\ \A i \in 1..Len(last.context) :
              last.context[i].score >= session_state.relevance_threshold
        /\ last.context = Present(session_state.last_query_relevant_notes,
                                  session_state.relevance_threshold)

\* C14: a query with the listing intent is handled with no query embedding
\* and no vector search: its answer is built from list_all_notes only.
C14_ListingBypassesSearch ==
    (last.op = "query" /\ last.query = ListIntent) =>
        /\ \A i \in 1..Len(last.calls) :
              last.calls[i] \notin {"generate_embedding", "search", "generate_response"}
        /\ ~last.raised => last.calls = <<"list_all_notes">>

\* the messages the chat history got for the last query
Reply ==
    SubSeq(session_state.chat_history, last.asked + 1,
           Len(session_state.chat_history))

\* C17: a failure of the embedding call, the vector search or the generation
\* call does not leave the handling of the query: the run ends with an
\* assistant message for that query, and nothing has propagated.
C17_QueryFailureContained ==
    last.op = "query" =>
        /\ ~last.raised
        /\ ui.exception = "none"
        /\ \E i \in 1..Len(Reply) : Reply[i].role = "assistant"

(***************************************************************************)
(* Properties of the session's store and indexer in app.py.                *)
(***************************************************************************)
\* C15: wherever the application constructs a VectorStore on a storage
\* folder that another client holds (at startup, and when Full Index builds
\* the store anew), the construction's failure is reported to the user as
\* the storage being locked, and no exception leaves the run.
C15_LockedIsReported ==
    (last.op \in {"startup", "Full Index"} /\ last.info.locked) =>
        /\ ui.error = "Qdrant database is locked"
        /\ ui.exception = "none"

\* C16: when the Full Index action has ended, either the records it started
\* from are gone and the session has a store and an indexer, or a failure was
\* reported and the session's store and indexer, the indexed-file set and
\* the records are as they were before the action.
C16_FullIndexAtomic ==
    (last.op = "Full Index" /\ Idle) =>
        \/ /\ ui.success # "none"
           /\ session_state = Services("open", TRUE)
           /\ \A pt \in points : pt.payload.file_path \in last.info.run.upserted
        \/ /\ ui.error # "none"
           /\ session_state = last.info.prior.session_state
           /\ indexed_files = last.info.prior.indexed_files
           /\ points = last.info.prior.points

\* the file_paths that have a record in the store
Recorded == {pt.payload.file_path : pt \in points}

\* C18: after a full_index in which every file was indexed successfully, the
\* file_paths with a record in the store are exactly the eligible files of
\* the vault: no record of a file removed from the vault is left.
C18_FullIndexRederives ==
    (last.op = "full_index" /\ last.failed = {}) => Recorded = Eligible

\* C22: every path of the indexed-file set has a record in the store,
\* whatever the session did before (indexing, removing, Clear Index), so
\* that an incremental_index skips no file that has no record.
C22_IndexedHaveRecords ==
    Serving => indexed_files \subseteq Recorded

\* C23: when the Delete Note action has reported success for a path, the
\* store holds no record of that path, also in a session started after a
\* restart.
C23_DeletedNoteHasNoRecord ==
    (last.op = "Delete Note" /\ ui.success = "deleted!") =>
        WithPath(points, last.info.run.arg) = {}

\* the history holds at most max_history messages, the ones added last
\* (and since the last clear_history), oldest first
MostRecent(svc) ==
    LET history == svc.chat_history
    IN  /\ svc.max_history \in MinHistory..MaxHistory
        /\ Len(history) <= svc.max_history
        /\ Len(history) <= last.added - last.cleared
        /\ \A i \in 1..Len(history) :
               history[i].content = last.added - Len(history) + i

\* C25: after every add_to_history, set_history_size, clear_history and
\* generate_response, max_history is between 1 and 20 and the history holds
\* at most max_history messages, the most recently added ones in the order
\* they were added; a generate_response whose model call failed has left the
\* service as it was.
C25_HistoryBounded ==
    [][/\ MostRecent(session_state.openai_service)'
       /\ (last'.op = "generate_response" /\ last'.raised) =>
             session_state' = session_state]_vars

\* a full history of twenty messages that has lost its oldest ones
C25_Witness ==
    /\ last.op \in {"add_to_history", "generate_response"}
    /\ ~last.raised
    /\ Len(session_state.openai_service.chat_history) = MaxHistory
    /\ session_state.openai_service.chat_history[1].content > last.cleared + 1

====
